---- MODULE Spec2Model ----
(***************************************************************************)
(* Model of workbox-precaching's PrecacheStrategy                           *)
(* (packages/workbox-precaching/src/utils/PrecacheStrategy.ts).             *)
(*                                                                          *)
(* The strategy's own code (constructor, _handle, _handleFetch,             *)
(* _handleInstall, _usesCustomCacheableResponseLogic,                       *)
(* copyRedirectedResponses) is translated statement by statement.  Its      *)
(* collaborators (the Strategy base class, StrategyHandler.cacheMatch /     *)
(* fetch / fetchAndCachePut, copyResponse) live in other packages and are   *)
(* modelled from the design document.                                       *)
(***************************************************************************)
EXTENDS Integers, Sequences, FiniteSets, TLC

(* ------------------------------ bounds --------------------------------- *)

\* number of strategy.handle() invocations in one behaviour
MaxCalls == 2
\* number of callback bundles in the plugins array the caller passes
MaxHooks == 1

(* --------------------------- value domains ----------------------------- *)

\* JavaScript's undefined / an absent field
Undefined == "undefined"

\* request.url of the Resource Requests
Requests == {"/index.html", "/app.js"}

Strategies == {"s1", "s2"}

\* handler.event.type; Undefined stands for a handler without an event
EventTypes == {"install", "fetch"}
Events == EventTypes \cup {Undefined}

\* handler.params: absent, present without the flag, flag true, flag false
ParamsValues == {Undefined, "noFlag", "fallbackTrue", "fallbackFalse"}

\* response.status >= 400 is the default "unsafe to precache" test
BadStatusThreshold == 400
Statuses == {200, 400}
Bodies == {"body"}

\* the absent response (undefined / not-found)
NoResponse == [kind |-> "none"]

Response(st, rd, b) ==
  [kind |-> "response", status |-> st, redirected |-> rd, body |-> b]

\* what the network can answer
NetworkResponses ==
  {Response(st, rd, b) : st \in Statuses, rd \in BOOLEAN, b \in Bodies}

\* Boolean(response)
Truthy(response) == response # NoResponse

(* ------------------------ response transforms -------------------------- *)

\* the identity of a bundle's cacheWillUpdate callback; Undefined = the
\* bundle defines none
BuiltIn == "copyRedirectedResponses"
CustomCallbacks == {"customAlter", "customVeto"}

Plugin(cb) == [cacheWillUpdate |-> cb]

\* bundles a caller can pass in options.plugins
CallerPlugins == {Plugin(cb) : cb \in CustomCallbacks \cup {Undefined}}

\* copyResponse: a fresh response with the same status and body; a freshly
\* constructed response is never flagged as redirected
copyResponse(response) ==
  Response(response.status, FALSE, response.body)

\* the response handed on as it is (cloned, not copied)
copyRedirectedResponses_clone(response) == response

\* the flag test taken the wrong way round
copyRedirectedResponses_swapped(response) ==
  IF response.redirected THEN response ELSE copyResponse(response)

copyRedirectedResponses(response) ==
  IF response.redirected THEN copyResponse(response) ELSE response

\* a caller-supplied cacheWillUpdate callback: one that replaces the
\* response's body, one that rejects the response
customCallback(cb, response) ==
  CASE cb = "customAlter" -> [response EXCEPT !.body = "altered"]
    [] cb = "customVeto"  -> NoResponse

cacheWillUpdate(plugin, response) ==
  CASE plugin.cacheWillUpdate = Undefined -> response
    [] plugin.cacheWillUpdate = BuiltIn   -> copyRedirectedResponses(response)
    [] OTHER -> customCallback(plugin.cacheWillUpdate, response)

\* the response-transform chain: callbacks run in registration order and
\* the chain stops as soon as one of them yields no response
RECURSIVE runChain(_, _)
runChain(plugins, response) ==
  IF plugins = <<>> \/ ~Truthy(response)
  THEN response
  ELSE runChain(Tail(plugins), cacheWillUpdate(Head(plugins), response))

(* ------------------------------ errors --------------------------------- *)

NoError == [name |-> "none"]

WorkboxError(name, details) == [name |-> name, details |-> details]

\* reading a property of undefined
TypeError == [name |-> "TypeError"]

\* failures raised by the collaborators
NetworkFailure == [name |-> "network-failure"]
StorageFailure == [name |-> "storage-failure"]
CollaboratorErrors == {NetworkFailure, StorageFailure}

(* ------------------------------- state --------------------------------- *)

VARIABLES
  production,  \* process.env.NODE_ENV === 'production'
  arrays,      \* the heap of plugins arrays: array id -> sequence of bundles
  strategies,  \* strategy -> [constructed, plugins (an array id), cacheName]
  cache,       \* cache name -> request url -> stored response or NoResponse
  call,        \* the invocation being handled
  ncalls,      \* invocations started so far
  parked,      \* a second invocation, suspended at one of its awaits
  prev         \* what is remembered of the invocation that settled last,
               \* kept while a request-time call for its request follows

vars ==
  <<production, arrays, strategies, cache, call, ncalls, parked, prev>>

\* the array the caller passes as options.plugins, and the arrays the base
\* class allocates when options.plugins is absent
CallerArray == "options.plugins"
OwnArray(s) == "own." \o s
ArrayIds == {CallerArray} \cup {OwnArray(s) : s \in Strategies}

\* options.cacheName: the strategies are configured with one precache name
CacheNameOf(s) == "workbox-precache"
CacheNames == {CacheNameOf(s) : s \in Strategies}

RECURSIVE SeqsUpTo(_, _)
SeqsUpTo(S, n) ==
  IF n = 0 THEN {<<>>}
  ELSE LET shorter == SeqsUpTo(S, n - 1)
       IN  shorter \cup {Append(q, x) : q \in shorter, x \in S}

EmptyCache == [cn \in CacheNames |-> [r \in Requests |-> NoResponse]]

IdleCall ==
  [pc |-> "idle", strategy |-> Undefined, request |-> Undefined,
   event |-> Undefined, params |-> Undefined, path |-> Undefined,
   matched |-> NoResponse, fetched |-> NoResponse, chained |-> NoResponse,
   response |-> NoResponse, error |-> NoError, ops |-> <<>>,
   cacheBefore |-> EmptyCache]

\* of a settled call: whether it was an install-time call that returned a
\* response ("installed"), a request-time call whose cache lookup found
\* nothing ("missed"), or anything else; and, for the first two, its
\* request
Settled(c) ==
  CASE c.path = "_handleInstall" /\ c.error = NoError ->
         [kind |-> "installed", request |-> c.request]
    [] c.path = "_handleFetch" /\ c.error # StorageFailure
         /\ ~Truthy(c.matched) ->
         [kind |-> "missed", request |-> c.request]
    [] OTHER -> [kind |-> "other", request |-> Undefined]

NoneSettled == [kind |-> "other", request |-> Undefined]

Init ==
  /\ production \in BOOLEAN
  /\ \E caller \in SeqsUpTo(CallerPlugins, MaxHooks) :
       arrays = [a \in ArrayIds |-> IF a = CallerArray THEN caller ELSE <<>>]
  /\ strategies = [s \in Strategies |->
                     [constructed |-> FALSE, plugins |-> Undefined,
                      cacheName |-> Undefined]]
  /\ cache = EmptyCache
  /\ call = IdleCall
  /\ ncalls = 0
  /\ parked = IdleCall
  /\ prev = NoneSettled

(* ---------------------------- construction ----------------------------- *)

\* Strategy's constructor: this.cacheName = options.cacheName and
\* this.plugins = options.plugins || [] (the array itself, not a copy)
StrategyConstructor(s, passPlugins) ==
  [constructed |-> TRUE,
   plugins |-> IF passPlugins THEN CallerArray ELSE OwnArray(s),
   cacheName |-> CacheNameOf(s)]

\* registration at the front of the array (unshift) instead of the back
push_front(array, plugin) == <<plugin>> \o array

\* the strategies are named in the order of their construction
NextStrategy ==
  IF strategies["s1"].constructed THEN "s2" ELSE "s1"

\* Array.prototype.push
push(array, plugin) == Append(array, plugin)

\* new PrecacheStrategy(options)
Construct(s, passPlugins) ==
  /\ s = NextStrategy
  /\ ~strategies[s].constructed
  /\ LET this == StrategyConstructor(s, passPlugins)
     IN  /\ strategies' = [strategies EXCEPT ![s] = this]
         /\ arrays' = [arrays EXCEPT
                         ![this.plugins] = push(@, Plugin(BuiltIn))]
  /\ UNCHANGED <<production, cache, call, ncalls, parked, prev>>

\* this.plugins of a constructed strategy
plugins(s) == arrays[strategies[s].plugins]

(* ------------------------------ _handle -------------------------------- *)

\* the event's presence tested without its type
isInstall_anyEvent(event) == event # Undefined

\* handler.event && handler.event.type === 'install'
isInstall(event) == event # Undefined /\ event = "install"

\* strategy.handle(): _handle runs synchronously up to the first await of
\* the handler it delegates to
_handle(s, request, event, params) ==
  /\ call.pc = "idle"
  /\ ncalls < MaxCalls
  /\ strategies[s].constructed
  /\ call' = [IdleCall EXCEPT
                !.strategy = s, !.request = request, !.event = event,
                !.params = params,
                !.path = IF isInstall(event) THEN "_handleInstall"
                                             ELSE "_handleFetch",
                !.pc = IF isInstall(event) THEN "fetchAndCachePut"
                                           ELSE "cacheMatch",
                !.cacheBefore = cache]
  /\ ncalls' = ncalls + 1
  /\ prev' = IF ~isInstall(event) /\ prev.request = request
             THEN prev ELSE NoneSettled
  /\ UNCHANGED <<production, arrays, strategies, cache, parked>>

(* ---------------------------- _handleFetch ----------------------------- *)

\* the flag compared with !== instead of ===
fallbackDisabled_negated(params) ==
  params # Undefined /\ params # "fallbackFalse"

\* handler.params && handler.params.fallbackToNetwork === false
fallbackDisabled(params) == params # Undefined /\ params = "fallbackFalse"

\* the diagnostics block at the end of _handleFetch: a no-op in a
\* production build; otherwise it reads handler.params.cacheKey, which
\* throws when handler.params is undefined
diagnosticsThrow(prod, params) == ~prod /\ params = Undefined

\* lines 69-87 in a build `prod`: report, then return the response
reportAndReturnIn(prod, c, response) ==
  IF diagnosticsThrow(prod, c.params)
  THEN [c EXCEPT !.pc = "done", !.error = TypeError]
  ELSE [c EXCEPT !.pc = "done", !.response = response]

\* lines 69-87 in the build at hand
reportAndReturn(c, response) == reportAndReturnIn(production, c, response)

\* the fallback taken whatever the lookup found
cacheMiss_always(response) == TRUE

\* line 48: if (!response)
cacheMiss(response) == ~Truthy(response)

\* every request read from the entry of one fixed request
requestArg_fixed(request) == "/index.html"

\* the request the handlers pass on to handler.cacheMatch, handler.fetch
\* and handler.fetchAndCachePut: their own `request` argument
requestArg(request) == request

\* handler.cacheMatch(request) resolves; lines 46-64
cacheMatchResolves ==
  /\ call.pc = "cacheMatch"
  /\ LET s == call.strategy
         response ==
           cache[strategies[s].cacheName][requestArg(call.request)]
         c == [call EXCEPT !.matched = response,
                           !.ops = Append(@, "cacheMatch")]
     IN  call' =
           IF ~cacheMiss(response)
           THEN reportAndReturn(c, response)
           ELSE IF fallbackDisabled(c.params)
           THEN [c EXCEPT
                   !.pc = "done",
                   !.error = WorkboxError("missing-precache-entry",
                               [cacheName |-> strategies[s].cacheName,
                                url |-> c.request])]
           ELSE [c EXCEPT !.pc = "fetch"]
  /\ UNCHANGED <<production, arrays, strategies, cache, ncalls, parked, prev>>

\* handler.cacheMatch(request) rejects
cacheMatchRejects ==
  /\ call.pc = "cacheMatch"
  /\ call' = [call EXCEPT !.pc = "done", !.error = StorageFailure,
                          !.ops = Append(@, "cacheMatch")]
  /\ UNCHANGED <<production, arrays, strategies, cache, ncalls, parked, prev>>

\* the fallback response also written to the cache
fetchResolves_caching(response) ==
  /\ call.pc = "fetch"
  /\ call' = reportAndReturn(
               [call EXCEPT !.fetched = response,
                            !.ops = Append(@, "fetch")], response)
  /\ cache' = [cache EXCEPT
                 ![strategies[call.strategy].cacheName]
                  [requestArg(call.request)] = response]
  /\ UNCHANGED <<production, arrays, strategies, ncalls, parked, prev>>

\* handler.fetch(request) resolves; lines 65-87
fetchResolves(response) ==
  /\ call.pc = "fetch"
  /\ call' = reportAndReturn(
               [call EXCEPT !.fetched = response,
                            !.ops = Append(@, "fetch")], response)
  /\ UNCHANGED <<production, arrays, strategies, cache, ncalls, parked, prev>>

\* handler.fetch(request) rejects
fetchRejects ==
  /\ call.pc = "fetch"
  /\ call' = [call EXCEPT !.pc = "done", !.error = NetworkFailure,
                          !.ops = Append(@, "fetch")]
  /\ UNCHANGED <<production, arrays, strategies, cache, ncalls, parked, prev>>

(* --------------------------- fetchAndCachePut -------------------------- *)
(* The collaborator's fetch-and-store: a network fetch, then the           *)
(* response-transform chain, then the store commit.                        *)

\* the network answers (possibly with no response at all)
putFetchResolves(response) ==
  /\ call.pc = "fetchAndCachePut"
  /\ call' = [call EXCEPT !.fetched = response,
                          !.ops = Append(@, "fetch"),
                          !.pc = IF Truthy(response) THEN "transform"
                                                     ELSE "resume"]
  /\ UNCHANGED <<production, arrays, strategies, cache, ncalls, parked, prev>>

\* the network fails
putFetchRejects ==
  /\ call.pc = "fetchAndCachePut"
  /\ call' = [call EXCEPT !.pc = "done", !.error = NetworkFailure,
                          !.ops = Append(@, "fetch")]
  /\ UNCHANGED <<production, arrays, strategies, cache, ncalls, parked, prev>>

\* the transforms of the strategy's hook set run on the fetched response
putTransform ==
  /\ call.pc = "transform"
  /\ call' = [call EXCEPT
                !.chained = runChain(plugins(call.strategy), call.fetched),
                !.ops = Append(@, "transform"),
                !.pc = "commit"]
  /\ UNCHANGED <<production, arrays, strategies, cache, ncalls, parked, prev>>

\* the transformed response is committed under the strategy's cache name;
\* nothing is written when the chain rejected the response
putCommit ==
  /\ call.pc = "commit"
  /\ LET cn == strategies[call.strategy].cacheName
     IN  IF Truthy(call.chained)
         THEN /\ cache' = [cache EXCEPT
                            ![cn][requestArg(call.request)] = call.chained]
              /\ call' = [call EXCEPT !.ops = Append(@, "commit"),
                                      !.pc = "resume"]
         ELSE /\ cache' = cache
              /\ call' = [call EXCEPT !.pc = "resume"]
  /\ UNCHANGED <<production, arrays, strategies, ncalls, parked, prev>>

\* the store refuses the write
putCommitRejects ==
  /\ call.pc = "commit"
  /\ Truthy(call.chained)
  /\ call' = [call EXCEPT !.pc = "done", !.error = StorageFailure]
  /\ UNCHANGED <<production, arrays, strategies, cache, ncalls, parked, prev>>

(* --------------------------- _handleInstall ---------------------------- *)

\* no bundle ever recognised as caller-supplied logic
_usesCustomCacheableResponseLogic_never(hooks) == FALSE

\* the comparison with the built-in callback left out
_usesCustomCacheableResponseLogic_anyCallback(hooks) ==
  \E i \in 1..Len(hooks) : hooks[i].cacheWillUpdate # Undefined

\* the two return values exchanged
_usesCustomCacheableResponseLogic_negated(hooks) ==
  ~\E i \in 1..Len(hooks) :
     /\ hooks[i].cacheWillUpdate # Undefined
     /\ hooks[i].cacheWillUpdate # BuiltIn

\* _usesCustomCacheableResponseLogic(), over this.plugins
_usesCustomCacheableResponseLogic(hooks) ==
  \E i \in 1..Len(hooks) :
    /\ hooks[i].cacheWillUpdate # Undefined
    /\ hooks[i].cacheWillUpdate # BuiltIn

\* lines 94-102
responseSafeToPrecache(response, hooks) ==
  IF Truthy(response) /\ response.status >= BadStatusThreshold
     /\ ~_usesCustomCacheableResponseLogic(hooks)
  THEN FALSE
  ELSE Truthy(response)

\* lines 107-110: building the error reads response.status, which throws
\* when there is no response
badPrecachingResponse(request, response) ==
  IF Truthy(response)
  THEN WorkboxError("bad-precaching-response",
                    [url |-> request, status |-> response.status])
  ELSE TypeError

\* the handler registering a default bundle on this.plugins when it runs
_handleInstall_registers ==
  /\ call.pc = "resume"
  /\ LET response == call.fetched
     IN  call' =
           IF ~responseSafeToPrecache(response, plugins(call.strategy))
           THEN [call EXCEPT !.pc = "done",
                   !.error = badPrecachingResponse(call.request, response)]
           ELSE [call EXCEPT !.pc = "done", !.response = response]
  /\ arrays' = [arrays EXCEPT ![strategies[call.strategy].plugins] =
                                push(@, Plugin(BuiltIn))]
  /\ UNCHANGED <<production, strategies, cache, ncalls, parked, prev>>

\* fetchAndCachePut resolved with the fetched response; lines 94-113
_handleInstall ==
  /\ call.pc = "resume"
  /\ LET response == call.fetched
     IN  call' =
           IF ~responseSafeToPrecache(response, plugins(call.strategy))
           THEN [call EXCEPT !.pc = "done",
                   !.error = badPrecachingResponse(call.request, response)]
           ELSE [call EXCEPT !.pc = "done", !.response = response]
  /\ UNCHANGED <<production, arrays, strategies, cache, ncalls, parked, prev>>

(* ------------------------------ settling ------------------------------- *)

\* the promise returned by _handle settles: the caller has its response or
\* its error, and the Event Context of the call is dropped
settle ==
  /\ call.pc = "done"
  /\ call' = IdleCall
  /\ prev' = Settled(call)
  /\ UNCHANGED <<production, arrays, strategies, cache, ncalls, parked>>

(* ---------------------------- specification ---------------------------- *)

Next ==
  \/ \E s \in Strategies, passPlugins \in BOOLEAN : Construct(s, passPlugins)
  \/ \E s \in Strategies, request \in Requests, event \in Events,
        params \in ParamsValues : _handle(s, request, event, params)
  \/ cacheMatchResolves
  \/ cacheMatchRejects
  \/ \E response \in NetworkResponses : fetchResolves(response)
  \/ fetchRejects
  \/ \E response \in NetworkResponses \cup {NoResponse} :
       putFetchResolves(response)
  \/ putFetchRejects
  \/ putTransform
  \/ putCommit
  \/ putCommitRejects
  \/ _handleInstall
  \/ settle

Spec == Init /\ [][Next]_vars

(* ------------------------ concurrent invocations ---------------------- *)
(* Two invocations in flight at once.  JavaScript runs one continuation at *)
(* a time: `call` is the invocation whose continuation runs next, `parked` *)
(* the one suspended at an await; the event loop may resume either.        *)

\* the event loop turns to the other invocation (or lets a second one
\* begin) while this one waits at an await or has finished
switch ==
  /\ call.pc # "idle"
  /\ parked.pc # "done"
  /\ call' = parked
  /\ parked' = call
  /\ UNCHANGED <<production, arrays, strategies, cache, ncalls, prev>>

\* strategy.handle() for a request other than the one in flight
_handleConcurrent(s, request, event, params) ==
  /\ request # parked.request
  /\ _handle(s, request, event, params)

\* entries an earlier installation may have left in the cache
Precached == {NoResponse, Response(200, FALSE, "body")}

\* one strategy constructed over the caller's plugins array, a cache left
\* by earlier installations, no invocation yet
InitConcurrent ==
  /\ production \in BOOLEAN
  /\ \E caller \in SeqsUpTo(CallerPlugins, MaxHooks) :
       arrays = [a \in ArrayIds |->
                   IF a = CallerArray THEN push(caller, Plugin(BuiltIn))
                                      ELSE <<>>]
  /\ strategies = [s \in Strategies |->
                     IF s = "s1"
                     THEN StrategyConstructor(s, TRUE)
                     ELSE [constructed |-> FALSE, plugins |-> Undefined,
                           cacheName |-> Undefined]]
  /\ cache \in [CacheNames -> [Requests -> Precached]]
  /\ call = IdleCall
  /\ ncalls = 0
  /\ parked = IdleCall
  /\ prev = NoneSettled

ConcurrentParams == {Undefined, "fallbackFalse"}

NextConcurrent ==
  \/ \E s \in Strategies, request \in Requests, event \in EventTypes,
        params \in ConcurrentParams :
       _handleConcurrent(s, request, event, params)
  \/ switch
  \/ cacheMatchResolves
  \/ cacheMatchRejects
  \/ \E response \in NetworkResponses : fetchResolves(response)
  \/ fetchRejects
  \/ \E response \in NetworkResponses \cup {NoResponse} :
       putFetchResolves(response)
  \/ putFetchRejects
  \/ putTransform
  \/ putCommit
  \/ putCommitRejects
  \/ _handleInstall

SpecConcurrent == InitConcurrent /\ [][NextConcurrent]_vars

TypeOK ==
  /\ production \in BOOLEAN
  /\ ncalls \in 0..MaxCalls
  /\ call.pc \in {"idle", "cacheMatch", "fetch", "fetchAndCachePut",
                  "transform", "commit", "resume", "done"}

(* ------------------------- notions used below -------------------------- *)

InstallDone == call.pc = "done" /\ call.path = "_handleInstall"
FetchDone == call.pc = "done" /\ call.path = "_handleFetch"

\* the collaborators completed without raising
NoCollaboratorError == call.error \notin CollaboratorErrors

\* the hook set of the strategy handling the call
callPlugins == plugins(call.strategy)

\* a caller-supplied bundle defining a will-update transform is installed
HasCallerWillUpdate(hooks) ==
  \E i \in 1..Len(hooks) : hooks[i].cacheWillUpdate \in CustomCallbacks

\* positions of the built-in redirect normalizer in a hook set
NormalizerPositions(hooks) ==
  {i \in 1..Len(hooks) : hooks[i] = Plugin(BuiltIn)}

\* number of collaborator operations of a kind performed by the call
RECURSIVE Count(_, _)
Count(ops, op) ==
  IF ops = <<>> THEN 0
  ELSE (IF Head(ops) = op THEN 1 ELSE 0) + Count(Tail(ops), op)

\* the entry of the call's request in the call's cache
callEntry == cache[CacheNameOf(call.strategy)][call.request]

\* the install-time fetch answered with a response of status >= 400 / < 400
FetchedBad ==
  InstallDone /\ Truthy(call.fetched) /\ call.fetched.status >= 400
FetchedGood ==
  InstallDone /\ Truthy(call.fetched) /\ call.fetched.status < 400

(* ------------------------------- claims -------------------------------- *)

\* C1: an install-time call whose fetch returns status >= 400 with no
\* caller-supplied will-update transform fails with bad-response and the
\* cache store received no commit (its content is as before the call).
C1_BadStatusNoCommit ==
  (FetchedBad /\ ~HasCallerWillUpdate(callPlugins) /\ NoCollaboratorError)
    => /\ call.error.name = "bad-precaching-response"
       /\ Count(call.ops, "commit") = 0
       /\ cache = call.cacheBefore

\* C2: an install-time call whose fetch-and-store yields no response fails
\* with bad-response carrying the request URL and an absence marker as
\* status, and with no other kind of failure.
C2_NoResponseIsBadResponse ==
  (InstallDone /\ ~Truthy(call.fetched) /\ NoCollaboratorError)
    => call.error = WorkboxError("bad-precaching-response",
                       [url |-> call.request, status |-> Undefined])

\* C3: a request-time call whose request is in the cache returns exactly
\* the stored response and performs no network fetch, whatever the
\* per-call parameters.
C3_HitServedFromCache ==
  (FetchDone /\ Truthy(call.matched))
    => /\ call.error = NoError
       /\ call.response = call.matched
       /\ Count(call.ops, "fetch") = 0

\* C4: a request-time call that misses the cache and whose parameters do
\* not explicitly disable fallback (flag true, flag absent, parameters
\* absent) does one cache lookup, then one network fetch, and returns the
\* fetch's result without raising an error.
C4_MissFallsBackToNetwork ==
  (FetchDone /\ ~Truthy(call.matched) /\ NoCollaboratorError
     /\ call.params \in {Undefined, "noFlag", "fallbackTrue"})
    => /\ call.ops = <<"cacheMatch", "fetch">>
       /\ call.error = NoError
       /\ call.response = call.fetched

\* C5: a request-time call that misses the cache with the fallback flag
\* explicitly false fails with missing-entry carrying the strategy's cache
\* name and the request URL, and performs no network fetch.
C5_MissWithoutFallbackFails ==
  (FetchDone /\ ~Truthy(call.matched) /\ NoCollaboratorError
     /\ call.params = "fallbackFalse")
    => /\ call.error = WorkboxError("missing-precache-entry",
                          [cacheName |-> CacheNameOf(call.strategy),
                           url |-> call.request])
       /\ call.response = NoResponse
       /\ call.ops = <<"cacheMatch">>

C5_Witness ==
  /\ FetchDone
  /\ call.params = "fallbackFalse"
  /\ call.error.name = "missing-precache-entry"

\* C6 (as stated): in the hook set of every constructed strategy the
\* redirect normalizer occupies the first position in registration order.
C6_NormalizerFirst ==
  \A s \in Strategies :
    strategies[s].constructed => Head(plugins(s)) = Plugin(BuiltIn)

\* C6 (amended): in the hook set of every constructed strategy the
\* redirect normalizer occupies the last position in registration order, so
\* every caller-supplied transform is registered, and evaluated, before it.
C6_NormalizerLast ==
  \A s \in Strategies :
    strategies[s].constructed =>
      /\ plugins(s) # <<>>
      /\ plugins(s)[Len(plugins(s))] = Plugin(BuiltIn)
      /\ \A i \in 1..Len(plugins(s)) :
           plugins(s)[i] \in CallerPlugins =>
             \E j \in NormalizerPositions(plugins(s)) : i < j

C6_Witness ==
  \E s \in Strategies :
    /\ strategies[s].constructed
    /\ HasCallerWillUpdate(plugins(s))
    /\ Head(plugins(s)) # Plugin(BuiltIn)

\* C7: in every reachable state the redirect normalizer occurs exactly once
\* in the hook set of each constructed strategy, also when several
\* strategies are constructed from the same caller-supplied hook sequence.
C7_NormalizerExactlyOnce ==
  \A s \in Strategies :
    strategies[s].constructed =>
      Cardinality(NormalizerPositions(plugins(s))) = 1

\* C8 (as stated): an install-time call whose fetch returns status >= 400
\* with a caller-supplied will-update transform installed does not fail
\* with bad-response: it proceeds with the commit and returns the response.
C8_ProceedsWithCommit ==
  (FetchedBad /\ HasCallerWillUpdate(callPlugins) /\ NoCollaboratorError)
    => /\ call.error = NoError
       /\ call.response = call.fetched
       /\ Count(call.ops, "commit") = 1

\* C8 (amended): such a call does not fail with bad-response and returns
\* the fetched response; the store receives the result of the transform
\* chain, which is nothing at all when a caller-supplied transform rejects
\* the response.
C8_BypassesDefaultCheck ==
  (FetchedBad /\ HasCallerWillUpdate(callPlugins) /\ NoCollaboratorError)
    => /\ call.error = NoError
       /\ call.response = call.fetched
       /\ LET stored == runChain(callPlugins, call.fetched)
          IN  IF Truthy(stored)
              THEN Count(call.ops, "commit") = 1 /\ callEntry = stored
              ELSE Count(call.ops, "commit") = 0
                   /\ cache = call.cacheBefore

C8_Witness ==
  /\ FetchedBad
  /\ HasCallerWillUpdate(callPlugins)
  /\ call.response = call.fetched
  /\ Count(call.ops, "commit") = 1

\* C9 (as stated): an install-time call whose fetch returns status < 400
\* returns without error and the response committed to the cache equals
\* the fetched response except that its redirect flag is cleared.
C9_CommittedEqualsFetched ==
  (FetchedGood /\ NoCollaboratorError)
    => /\ call.error = NoError
       /\ Count(call.ops, "commit") = 1
       /\ callEntry = [call.fetched EXCEPT !.redirected = FALSE]

\* C9 (amended): such a call returns the fetched response without error
\* (unless the store itself fails); when no caller-supplied will-update
\* transform is installed, the response committed to the cache equals the
\* fetched response except that its redirect flag is cleared.
C9_CommittedEqualsFetchedByDefault ==
  (FetchedGood /\ NoCollaboratorError)
    => /\ call.error = NoError
       /\ call.response = call.fetched
       /\ ~HasCallerWillUpdate(callPlugins) =>
            /\ Count(call.ops, "commit") = 1
            /\ callEntry = [call.fetched EXCEPT !.redirected = FALSE]

C9_Witness ==
  /\ FetchedGood
  /\ call.fetched.redirected
  /\ ~HasCallerWillUpdate(callPlugins)
  /\ call.error = NoError
  /\ callEntry = [call.fetched EXCEPT !.redirected = FALSE]

\* C10: a call is routed to the install-time handler if and only if its
\* event kind is install; every other call (other kind, no event) goes to
\* the request-time handler; routing itself touches neither cache nor
\* network.
C10_RoutedByEventKind ==
  call.pc # "idle" =>
    /\ call.path = "_handleInstall" <=> call.event = "install"
    /\ call.path = "_handleFetch" <=> call.event # "install"
    /\ call.path = "_handleInstall" =>
         /\ call.pc \in {"fetchAndCachePut", "transform", "commit",
                         "resume", "done"}
         /\ Count(call.ops, "cacheMatch") = 0
    /\ call.path = "_handleFetch" =>
         /\ call.pc \in {"cacheMatch", "fetch", "done"}
         /\ Count(call.ops, "transform") + Count(call.ops, "commit") = 0
    /\ call.pc \in {"cacheMatch", "fetchAndCachePut"} =>
         call.ops = <<>> /\ cache = call.cacheBefore

C10_Witness ==
  /\ call.pc = "done"
  /\ call.event = Undefined
  /\ call.path = "_handleFetch"
  /\ call.ops # <<>>

\* C11: every failed call fails with missing-entry, with bad-response, or
\* with the error a collaborator raised; the strategy originates no other
\* error.
C11_OnlyNamedErrors ==
  (call.pc = "done" /\ call.error # NoError)
    => \/ call.error.name \in {"missing-precache-entry",
                               "bad-precaching-response"}
       \/ call.error \in CollaboratorErrors

\* C12: diagnostics never influence control flow: whenever a request-time
\* call is about to report and return (after a cache hit, or after the
\* fallback fetch), the call ends the same way (same response or error,
\* same collaborator operations) in a non-production build as in a
\* production build, also when the per-call parameters are absent.
C12_DiagnosticsInert ==
  /\ call.pc = "cacheMatch" =>
       LET entry == cache[strategies[call.strategy].cacheName][call.request]
           c == [call EXCEPT !.matched = entry,
                             !.ops = Append(@, "cacheMatch")]
       IN  Truthy(entry) =>
             reportAndReturnIn(FALSE, c, entry)
               = reportAndReturnIn(TRUE, c, entry)
  /\ call.pc = "fetch" =>
       \A response \in NetworkResponses :
         LET c == [call EXCEPT !.fetched = response,
                               !.ops = Append(@, "fetch")]
         IN  reportAndReturnIn(FALSE, c, response)
               = reportAndReturnIn(TRUE, c, response)

\* C13: the redirect normalizer, applied to the response an install-time
\* call fetched, yields a response with the redirect flag cleared and the
\* same status and body when the flag is set, yields the very same response
\* when it is not set, and applying it twice gives what applying it once
\* gives; with no caller-supplied transform this is what the chain hands to
\* the store.
C13_NormalizerClearsFlag ==
  (call.path = "_handleInstall" /\ Truthy(call.fetched)) =>
    LET input == call.fetched
        output == copyRedirectedResponses(input)
    IN  /\ input.redirected =>
             /\ ~output.redirected
             /\ output.status = input.status
             /\ output.body = input.body
        /\ ~input.redirected => output = input
        /\ copyRedirectedResponses(output) = output
        /\ (Count(call.ops, "transform") = 1
              /\ ~HasCallerWillUpdate(callPlugins)) => call.chained = output

C13_Witness ==
  /\ call.pc = "commit"
  /\ call.fetched.redirected
  /\ ~HasCallerWillUpdate(callPlugins)
  /\ call.chained = [call.fetched EXCEPT !.redirected = FALSE]

\* C14: whenever the install-time handler consults the Custom-Logic
\* Detector, the detector answers true exactly when some entry of the hook
\* set defines a will-update transform other than the built-in normalizer
\* (so false with no caller-supplied hooks or only hooks without a
\* will-update transform), the default status test applies exactly when it
\* answers false, and the hook set is left unchanged.
C14_DetectorFindsCallerTransforms ==
  [][(call.pc = "resume" /\ call'.pc = "done") =>
       LET hooks == plugins(call.strategy)
       IN  /\ arrays' = arrays
           /\ _usesCustomCacheableResponseLogic(hooks)
                <=> HasCallerWillUpdate(hooks)
           /\ (\A i \in 1..Len(hooks) :
                 hooks[i].cacheWillUpdate \in {Undefined, BuiltIn})
                => ~_usesCustomCacheableResponseLogic(hooks)
           /\ (Truthy(call.fetched) /\ call.fetched.status >= 400) =>
                (call'.error = NoError <=> HasCallerWillUpdate(hooks))]_vars

C14_Witness ==
  /\ InstallDone
  /\ \E i \in 1..Len(callPlugins) : callPlugins[i] = Plugin(Undefined)
  /\ ~HasCallerWillUpdate(callPlugins)
  /\ call.error.name = "bad-precaching-response"

\* what a caller and the cache show of an invocation: the error it failed
\* with, the response it returned, its collaborator operations in order,
\* and the cache entry of its request
Outcome(error, response, ops, entry) ==
  [error |-> error, response |-> response, ops |-> ops, entry |-> entry]

\* the outcome of a finished invocation as it stands in the state
Observed(c) ==
  Outcome(c.error.name, c.response, c.ops,
          cache[CacheNameOf(c.strategy)][c.request])

\* a request-time invocation running alone against the cache entry `entry`
\* of its request, the network answering c.fetched or failing as c.error
\* tells
AloneRequestTime(c, entry) ==
  LET throws == ~production /\ c.params = Undefined
  IN  CASE c.error = StorageFailure ->
             Outcome("storage-failure", NoResponse, <<"cacheMatch">>, entry)
        [] c.error # StorageFailure /\ Truthy(entry) ->
             IF throws
             THEN Outcome("TypeError", NoResponse, <<"cacheMatch">>, entry)
             ELSE Outcome("none", entry, <<"cacheMatch">>, entry)
        [] c.error # StorageFailure /\ ~Truthy(entry)
             /\ c.params = "fallbackFalse" ->
             Outcome("missing-precache-entry", NoResponse,
                     <<"cacheMatch">>, entry)
        [] OTHER ->
             IF c.error = NetworkFailure
             THEN Outcome("network-failure", NoResponse,
                          <<"cacheMatch", "fetch">>, entry)
             ELSE IF throws
             THEN Outcome("TypeError", NoResponse,
                          <<"cacheMatch", "fetch">>, entry)
             ELSE Outcome("none", c.fetched, <<"cacheMatch", "fetch">>, entry)

\* an install-time invocation running alone against the cache entry
\* `entry` of its request under the hook set `hooks`, the network
\* answering c.fetched, or it or the store failing as c.error tells
AloneInstallTime(c, entry, hooks) ==
  LET net == c.fetched
      stored == IF Truthy(net) THEN runChain(hooks, net) ELSE NoResponse
      ops == IF ~Truthy(net) THEN <<"fetch">>
             ELSE IF Truthy(stored) THEN <<"fetch", "transform", "commit">>
             ELSE <<"fetch", "transform">>
      after == IF Truthy(stored) THEN stored ELSE entry
  IN  CASE c.error = NetworkFailure ->
             Outcome("network-failure", NoResponse, <<"fetch">>, entry)
        [] c.error = StorageFailure ->
             Outcome("storage-failure", NoResponse,
                     <<"fetch", "transform">>, entry)
        [] OTHER ->
             IF ~Truthy(net)
             THEN Outcome("TypeError", NoResponse, ops, after)
             ELSE IF net.status >= BadStatusThreshold
                     /\ ~HasCallerWillUpdate(hooks)
             THEN Outcome("bad-precaching-response", NoResponse, ops, after)
             ELSE Outcome("none", net, ops, after)

\* the outcome of invocation c had it run alone from the cache it started
\* against
RunsAlone(c) ==
  LET entry == c.cacheBefore[CacheNameOf(c.strategy)][c.request]
  IN  IF c.path = "_handleInstall"
      THEN AloneInstallTime(c, entry, plugins(c.strategy))
      ELSE AloneRequestTime(c, entry)

\* C15: two invocations on different requests are independent: however
\* their collaborator steps interleave, each invocation, once finished,
\* has the outcome (error or response), the sequence of collaborator
\* operations and the cache entry for its request that it has when it
\* runs alone against the same cache entry and the same network result.
C15_ConcurrentCallsIndependent ==
  \A c \in {call, parked} : c.pc = "done" => Observed(c) = RunsAlone(c)

\* two install-time invocations, both started before either committed,
\* have both committed
C15_Witness ==
  /\ call.pc = "done" /\ parked.pc = "done"
  /\ call.request # parked.request
  /\ call.path = "_handleInstall" /\ parked.path = "_handleInstall"
  /\ Count(call.ops, "commit") = 1 /\ Count(parked.ops, "commit") = 1
  /\ call.cacheBefore = parked.cacheBefore
  /\ \A r \in Requests :
       ~Truthy(call.cacheBefore[CacheNameOf(call.strategy)][r])

\* a sequence is an initial part of another
IsPrefix(ops, full) ==
  Len(ops) <= Len(full) /\ ops = SubSeq(full, 1, Len(ops))

\* C16: within one invocation the collaborator operations are strictly
\* ordered: on the request-time path the fallback fetch starts only after
\* the cache lookup completed with a miss; on the install-time path the
\* network fetch precedes the transforms, which precede the commit, and the
\* safety determination (hence any bad-response) comes only after
\* fetch-and-store has completed.
C16_OperationsInOrder ==
  /\ call.path = "_handleFetch" =>
       /\ IsPrefix(call.ops, <<"cacheMatch", "fetch">>)
       /\ (call.pc = "fetch" \/ Count(call.ops, "fetch") > 0) =>
            /\ call.ops[1] = "cacheMatch"
            /\ ~Truthy(call.matched)
  /\ call.path = "_handleInstall" =>
       /\ IsPrefix(call.ops, <<"fetch", "transform", "commit">>)
       /\ (call.pc = "done" /\ NoCollaboratorError) =>
            /\ call.ops[1] = "fetch"
            /\ Truthy(call.fetched) => Count(call.ops, "transform") = 1
            /\ Truthy(call.chained) => Count(call.ops, "commit") = 1
       /\ call.error.name = "bad-precaching-response" =>
            call.ops = <<"fetch", "transform", "commit">>

C16_Witness ==
  /\ InstallDone
  /\ call.error.name = "bad-precaching-response"
  /\ call.ops = <<"fetch", "transform", "commit">>

C18_HandlingLeavesStrategyAlone ==
  /\ [](\A s \in Strategies :
          strategies[s].constructed =>
            /\ strategies[s].cacheName = CacheNameOf(s)
            /\ Cardinality(NormalizerPositions(plugins(s)))
                 = Cardinality({t \in Strategies :
                      /\ strategies[t].constructed
                      /\ strategies[t].plugins = strategies[s].plugins}))
  /\ [][call' # call =>
          arrays' = arrays /\ strategies' = strategies]_vars

C18_Witness ==
  /\ ncalls = MaxCalls
  /\ call.pc = "done"
  /\ call.error # NoError
  /\ \E s \in Strategies :
       strategies[s].constructed /\ Len(plugins(s)) > 1

\* the call at hand is a request-time call for the request of the call
\* that settled just before it, and its cache lookup has resolved
FollowsUp ==
  /\ call.path = "_handleFetch"
  /\ call.request = prev.request
  /\ Count(call.ops, "cacheMatch") = 1
  /\ call.error # StorageFailure

\* C19: a request-time call never writes to the cache, also when it falls
\* back to the network: the cache content stays what it was when the call
\* began, so the next request-time call for the same request misses again
\* and does its own network fetch or fails with missing-entry.
C19_ServerNeverWrites ==
  /\ call.path = "_handleFetch" => cache = call.cacheBefore
  /\ (prev.kind = "missed" /\ FollowsUp) =>
       /\ ~Truthy(call.matched)
       /\ call.pc = "done" =>
            \/ Count(call.ops, "fetch") = 1
            \/ /\ call.error.name = "missing-precache-entry"
               /\ Count(call.ops, "fetch") = 0

C19_Witness ==
  /\ prev.kind = "missed"
  /\ FollowsUp
  /\ call.pc = "done"
  /\ ~Truthy(call.matched)
  /\ Count(call.ops, "fetch") = 1
  /\ call.response = call.fetched

\* C20: once an install-time call for a request has returned a response
\* without error, the next request-time call for that request (no commit
\* or removal in between) gets a cache hit, returns the response that the
\* install committed, redirect flag cleared, and performs no network fetch,
\* even with fallback disabled.
C20_InstallThenServe ==
  (prev.kind = "installed" /\ FollowsUp /\ call.pc = "done")
    => /\ Truthy(call.matched)
       /\ ~call.matched.redirected
       /\ call.error = NoError
       /\ call.response = call.matched
       /\ Count(call.ops, "fetch") = 0

====
